---- MODULE Spec2Model ----
(***************************************************************************)
(* A model of src/config_parser.py: class ConfigParser and the main block. *)
(*                                                                         *)
(* Text is modelled as a sequence of one-character strings, so that the    *)
(* string operations of the parser (startswith, endswith, split, strip,    *)
(* isdigit, int, str, the regular expression of parse_global) are computed *)
(* character by character, as Python computes them.                        *)
(*                                                                         *)
(* A Python value held by the parser is an int or a list of values:        *)
(*     [int |-> i]          the int i                                      *)
(*     [list |-> <<...>>]   the list of the given values                   *)
(* The parser never mutates a list object in place (parse_array builds a   *)
(* new list, a + b and a * b build new lists, constants[name] = value      *)
(* rebinds), so two references to one list object cannot be told apart     *)
(* from two equal lists, and lists are modelled as values.                 *)
(*                                                                         *)
(* A call either returns or raises:                                        *)
(*     [val |-> v]                          returned v                     *)
(*     [exc |-> [type, msg, arg]]           raised type(f"{msg}: {arg}")   *)
(***************************************************************************)
EXTENDS Integers, Sequences, FiniteSets, TLC

VARIABLES
    constants,  \* self.constants: dict from name to value
    xml_root,   \* the children of self.xml_root, in document order
    line,       \* the argument of the latest parse_line call
    exc,        \* the exception that call raised, or NoExc
    printed,    \* what that call wrote to stdout: the results it printed
    nlines      \* how many lines of the file parse_file has passed on

vars == <<constants, xml_root, line, exc, printed, nlines>>

----------------------------------------------------------------------------
(* Characters and Python's str methods                                     *)

DigitChars == <<"0", "1", "2", "3", "4", "5", "6", "7", "8", "9">>

Digits == {DigitChars[i] : i \in 1..10}

Letters ==
    {"a", "b", "c", "d", "e", "f", "g", "h", "i", "j", "k", "l", "m",
     "n", "o", "p", "q", "r", "s", "t", "u", "v", "w", "x", "y", "z",
     "A", "B", "C", "D", "E", "F", "G", "H", "I", "J", "K", "L", "M",
     "N", "O", "P", "Q", "R", "S", "T", "U", "V", "W", "X", "Y", "Z"}

\* [_a-zA-Z] and [_a-zA-Z0-9] of the regular expression of parse_global
IdStart == Letters \cup {"_"}

IdChar == IdStart \cup Digits

\* what \s of the regular expression, str.strip() and str.split() take for
\* whitespace, among the characters of the model
Whitespace == {" ", "\t", "\n"}

startswith(s, p) ==
    /\ Len(p) <= Len(s)
    /\ SubSeq(s, 1, Len(p)) = p

endswith(s, p) ==
    /\ Len(p) <= Len(s)
    /\ SubSeq(s, Len(s) - Len(p) + 1, Len(s)) = p

\* str.isdigit(): at least one character, and every character a digit
\* (the digits of the model are the ASCII ones)
isdigit(s) ==
    /\ Len(s) > 0
    /\ \A i \in 1..Len(s) : s[i] \in Digits

DigitVal(c) ==
    (CHOOSE i \in 1..10 : DigitChars[i] = c) - 1

\* int(s) for a string of digits
RECURSIVE int(_)
int(s) ==
    IF Len(s) = 0 THEN 0
    ELSE 10 * int(SubSeq(s, 1, Len(s) - 1)) + DigitVal(s[Len(s)])

\* str(n) for an int
RECURSIVE str_int(_)
str_int(n) ==
    IF n < 0 THEN <<"-">> \o str_int(0 - n)
    ELSE IF n < 10 THEN <<DigitChars[n + 1]>>
    ELSE str_int(n \div 10) \o <<DigitChars[(n % 10) + 1]>>

\* str(v) for an int or a list: a list prints as [e1, e2, ...]
RECURSIVE str(_), str_items(_)
str(v) ==
    IF "int" \in DOMAIN v THEN str_int(v.int)
    ELSE <<"[">> \o str_items(v.list) \o <<"]">>

str_items(items) ==
    IF Len(items) = 0 THEN <<>>
    ELSE IF Len(items) = 1 THEN str(items[1])
    ELSE str(items[1]) \o <<",", " ">> \o str_items(Tail(items))

\* s.split(sep) for a one-character separator: never the empty list
RECURSIVE split(_, _)
split(s, sep) ==
    IF \A i \in 1..Len(s) : s[i] # sep THEN <<s>>
    ELSE LET i == CHOOSE k \in 1..Len(s) :
                      /\ s[k] = sep
                      /\ \A j \in 1..(k - 1) : s[j] # sep
         IN  <<SubSeq(s, 1, i - 1)>> \o split(SubSeq(s, i + 1, Len(s)), sep)

RECURSIVE lstrip(_)
lstrip(s) ==
    IF Len(s) > 0 /\ s[1] \in Whitespace THEN lstrip(Tail(s)) ELSE s

RECURSIVE rstrip(_)
rstrip(s) ==
    IF Len(s) > 0 /\ s[Len(s)] \in Whitespace
    THEN rstrip(SubSeq(s, 1, Len(s) - 1))
    ELSE s

strip(s) == rstrip(lstrip(s))

\* s.split(): the maximal runs of non-whitespace characters
RECURSIVE split_ws(_)
split_ws(s) ==
    LET runs(t) ==
            IF Len(t) = 0 THEN <<>>
            ELSE LET ends == {k \in 1..Len(t) : t[k] \in Whitespace}
                     n == IF ends = {} THEN Len(t)
                          ELSE (CHOOSE k \in ends : \A j \in ends : k <= j) - 1
                 IN  <<SubSeq(t, 1, n)>> \o split_ws(SubSeq(t, n + 1, Len(t)))
    IN  runs(lstrip(s))

----------------------------------------------------------------------------
(* Values, results and exceptions                                          *)

Integer(i) == [int |-> i]

List(items) == [list |-> items]

IsInt(v) == "int" \in DOMAIN v

IsList(v) == "list" \in DOMAIN v

Ok(v) == [val |-> v]

Raise(type, msg, arg) == [exc |-> [type |-> type, msg |-> msg, arg |-> arg]]

IsOk(r) == "val" \in DOMAIN r

NoExc == [type |-> "none", msg |-> "", arg |-> <<>>]

\* element.text of an element that was given no text
None == <<"None">>

----------------------------------------------------------------------------
(* parse_value and parse_array                                             *)

S_array_open == <<"a", "r", "r", "a", "y", "(">>

RECURSIVE parse_value(_, _), parse_array(_, _), parse_elements(_, _)

\* src lines 56-71
parse_value(value, cs) ==
    IF startswith(value, S_array_open) /\ endswith(value, <<")">>)
    THEN parse_array(value, cs)
    ELSE IF isdigit(value) THEN Ok(Integer(int(value)))
    ELSE IF value \in DOMAIN cs THEN Ok(cs[value])
    ELSE Raise("SyntaxError", "Invalid value", value)

\* src line 80: the list comprehension, element by element; the first
\* element that raises ends it
parse_elements(pieces, cs) ==
    LET cons(first, rest) ==
            IF ~IsOk(rest) THEN rest
            ELSE Ok(List(<<first.val>> \o rest.val.list))
        then(first) ==
            IF ~IsOk(first) THEN first
            ELSE cons(first, parse_elements(Tail(pieces), cs))
    IN  IF Len(pieces) = 0 THEN Ok(List(<<>>))
        ELSE then(parse_value(strip(pieces[1]), cs))

\* src lines 73-80
parse_array(array_str, cs) ==
    LET inner == SubSeq(array_str, Len(S_array_open) + 1, Len(array_str) - 1)
    IN  parse_elements(split(inner, ","), cs)

----------------------------------------------------------------------------
(* The operators of evaluate_expression, on Python values                  *)

TypeError == Raise("TypeError", "unsupported operand type(s)", <<>>)

ZeroDivisionError ==
    Raise("ZeroDivisionError", "integer division or modulo by zero", <<>>)

\* l * n for a list l and an int n: n copies of l, none when n <= 0
RECURSIVE repeat(_, _)
repeat(items, n) ==
    IF n <= 0 THEN <<>> ELSE items \o repeat(items, n - 1)

\* a + b
py_add(a, b) ==
    IF IsInt(a) /\ IsInt(b) THEN Ok(Integer(a.int + b.int))
    ELSE IF IsList(a) /\ IsList(b) THEN Ok(List(a.list \o b.list))
    ELSE TypeError

\* a - b
py_sub(a, b) ==
    IF IsInt(a) /\ IsInt(b) THEN Ok(Integer(a.int - b.int))
    ELSE TypeError

\* a * b
py_mul(a, b) ==
    IF IsInt(a) /\ IsInt(b) THEN Ok(Integer(a.int * b.int))
    ELSE IF IsList(a) /\ IsInt(b) THEN Ok(List(repeat(a.list, b.int)))
    ELSE IF IsInt(a) /\ IsList(b) THEN Ok(List(repeat(b.list, a.int)))
    ELSE TypeError

\* a division that rounds toward zero, as C's / does
floor_div_truncating(x, y) ==
    LET ax == IF x < 0 THEN 0 - x ELSE x
        ay == IF y < 0 THEN 0 - y ELSE y
        q == ax \div ay
    IN  IF (x < 0) = (y < 0) THEN q ELSE 0 - q

\* the floor of x / y for y # 0, from the quotient of the absolute values
floor_div(x, y) ==
    LET ax == IF x < 0 THEN 0 - x ELSE x
        ay == IF y < 0 THEN 0 - y ELSE y
        q == ax \div ay
    IN  IF (x < 0) = (y < 0) THEN q
        ELSE IF q * ay = ax THEN 0 - q
        ELSE 0 - q - 1

\* a // b
py_floordiv(a, b) ==
    IF IsInt(a) /\ IsInt(b)
    THEN IF b.int = 0 THEN ZeroDivisionError
         ELSE Ok(Integer(floor_div(a.int, b.int)))
    ELSE TypeError

\* a % b: the remainder of the floor division, with the sign of b
py_mod(a, b) ==
    IF IsInt(a) /\ IsInt(b)
    THEN IF b.int = 0 THEN ZeroDivisionError
         ELSE Ok(Integer(a.int - b.int * floor_div(a.int, b.int)))
    ELSE TypeError

\* x > y: "T", "F", or "E" when Python raises TypeError. Two lists compare
\* by their first pair of unequal elements, else by length.
RECURSIVE py_gt(_, _)
py_gt(x, y) ==
    IF IsInt(x) /\ IsInt(y) THEN (IF x.int > y.int THEN "T" ELSE "F")
    ELSE IF IsList(x) /\ IsList(y)
    THEN LET n == IF Len(x.list) < Len(y.list) THEN Len(x.list)
                  ELSE Len(y.list)
             diff == {i \in 1..n : x.list[i] # y.list[i]}
         IN  IF diff = {}
             THEN (IF Len(x.list) > Len(y.list) THEN "T" ELSE "F")
             ELSE LET i == CHOOSE k \in diff : \A j \in diff : k <= j
                  IN  py_gt(x.list[i], y.list[i])
    ELSE "E"

\* max(a, b): b when b > a, else a
py_max(a, b) ==
    LET pick(gt) ==
            IF gt = "E" THEN TypeError
            ELSE IF gt = "T" THEN Ok(b)
            ELSE Ok(a)
    IN  pick(py_gt(b, a))

----------------------------------------------------------------------------
(* evaluate_expression                                                     *)

T_add == <<"+">>
T_sub == <<"-">>
T_mul == <<"*">>
T_div == <<"/">>
T_mod == <<"m", "o", "d">>
T_max == <<"m", "a", "x">>

Operators == {T_add, T_sub, T_mul, T_div, T_mod, T_max}

apply_operator(token, a, b) ==
    IF token = T_add THEN py_add(a, b)
    ELSE IF token = T_sub THEN py_sub(a, b)
    ELSE IF token = T_mul THEN py_mul(a, b)
    ELSE IF token = T_div THEN py_floordiv(a, b)
    ELSE IF token = T_mod THEN py_mod(a, b)
    ELSE py_max(a, b)

\* b, a = stack.pop(), stack.pop(); stack.append(a OP b)
\* list.pop() of an empty list raises IndexError
binary(token, stack) ==
    LET append(below, r) ==
            IF IsOk(r) THEN [exc |-> NoExc, stack |-> Append(below, r.val)]
            ELSE [exc |-> r.exc, stack |-> below]
    IN  IF Len(stack) < 2
        THEN [exc |-> Raise("IndexError", "pop from empty list", <<>>).exc,
              stack |-> <<>>]
        ELSE append(SubSeq(stack, 1, Len(stack) - 2),
                    apply_operator(token, stack[Len(stack) - 1],
                                   stack[Len(stack)]))

\* one pass of the for loop, src lines 90-114
eval_token(token, stack, cs) ==
    IF isdigit(token)
    THEN [exc |-> NoExc, stack |-> Append(stack, Integer(int(token)))]
    ELSE IF token \in DOMAIN cs
    THEN [exc |-> NoExc, stack |-> Append(stack, cs[token])]
    ELSE IF token \in Operators THEN binary(token, stack)
    ELSE [exc |-> Raise("SyntaxError", "Unknown token in expression",
                        token).exc,
          stack |-> stack]

\* the for loop: the stack when it ends, or the exception that ends it
RECURSIVE eval_tokens(_, _, _)
eval_tokens(tokens, stack, cs) ==
    LET then(s) ==
            IF s.exc # NoExc THEN s
            ELSE eval_tokens(Tail(tokens), s.stack, cs)
    IN  IF Len(tokens) = 0 THEN [exc |-> NoExc, stack |-> stack]
        ELSE then(eval_token(tokens[1], stack, cs))

\* a check that only an empty stack fails
result_ready_nonempty(stack) == Len(stack) >= 1

\* what is left on the stack for a result to be reported
result_ready(stack) == Len(stack) = 1

\* src lines 82-120: the exception raised or NoExc, and what was printed
evaluate_expression(expression, cs) ==
    LET after(loop) ==
            IF loop.exc # NoExc THEN [exc |-> loop.exc, printed |-> <<>>]
            ELSE IF ~result_ready(loop.stack)
            THEN [exc |-> Raise("SyntaxError", "Invalid expression",
                                expression).exc,
                  printed |-> <<>>]
            ELSE [exc |-> NoExc, printed |-> <<loop.stack[1]>>]
    IN  after(eval_tokens(split_ws(expression), <<>>, cs))

----------------------------------------------------------------------------
(* add_to_xml                                                              *)

\* ET.SubElement(element, "value").text = str(val)
value_element(val) ==
    [tag |-> "value", name |-> None, text |-> str(val), children |-> <<>>]

\* the element add_to_xml builds, src lines 127-132
constant_element(name, value) ==
    IF IsList(value)
    THEN [tag |-> "constant", name |-> name, text |-> None,
          children |-> [i \in 1..Len(value.list) |->
                            value_element(value.list[i])]]
    ELSE [tag |-> "constant", name |-> name, text |-> str(value),
          children |-> <<>>]

\* src lines 122-132: the new element becomes the last child of the root
add_to_xml(name, value, root) ==
    Append(root, constant_element(name, value))

----------------------------------------------------------------------------
(* parse_global                                                            *)

S_global == <<"g", "l", "o", "b", "a", "l">>

\* how many leading characters of s are in C
RECURSIVE span(_, _)
span(s, C) ==
    IF Len(s) > 0 /\ s[1] \in C THEN 1 + span(Tail(s), C) ELSE 0

\* s without its first n characters
drop(s, n) == SubSeq(s, n + 1, Len(s))

\* the place of the last c in s, 0 when there is none
last_index(s, c) ==
    IF \A k \in 1..Len(s) : s[k] # c THEN 0
    ELSE CHOOSE k \in 1..Len(s) :
             /\ s[k] = c
             /\ \A j \in (k + 1)..Len(s) : s[j] # c

\* re.match(r"global\s+([_a-zA-Z][_a-zA-Z0-9]*)\s*=\s*(.+);", line):
\* the two groups, or no match. The match is anchored at the start only;
\* (.+) is greedy, so it runs to the last ";" of the line; \s* before it
\* gives a character back when nothing else is left for (.+).
match_global(s) ==
    LET NoMatch == [matched |-> FALSE, name |-> <<>>, value |-> <<>>]
        \* \s*(.+); on the text after "=": w whitespace characters lead
        \* it and its last ";" is at q
        value(name, rest, w, q) ==
            IF q <= 1 THEN NoMatch
            ELSE [matched |-> TRUE,
                  name |-> name,
                  value |-> IF q - 1 > w THEN SubSeq(rest, w + 1, q - 1)
                            ELSE SubSeq(rest, q - 1, q - 1)]
        \* = and the rest
        equals(name, d) ==
            IF Len(d) = 0 \/ d[1] # "=" THEN NoMatch
            ELSE value(name, Tail(d), span(Tail(d), Whitespace),
                       last_index(Tail(d), ";"))
        \* ([_a-zA-Z][_a-zA-Z0-9]*)\s* on b, whose first n characters are
        \* the name
        name(b, n) ==
            IF n = 0 THEN NoMatch
            ELSE equals(SubSeq(b, 1, n),
                        drop(b, n + span(drop(b, n), Whitespace)))
        identifier(b) ==
            name(b, IF Len(b) > 0 /\ b[1] \in IdStart THEN span(b, IdChar)
                    ELSE 0)
        \* \s+ on the text after "global"
        space(a, w) ==
            IF w = 0 THEN NoMatch ELSE identifier(drop(a, w))
    IN  IF ~startswith(s, S_global) THEN NoMatch
        ELSE space(drop(s, Len(S_global)),
                   span(drop(s, Len(S_global)), Whitespace))

\* a table that holds references: rebinding a name rebinds every name that
\* was bound to the same value
bind_shared(cs, name, value) ==
    [k \in DOMAIN cs \cup {name} |->
        IF k = name THEN value
        ELSE IF name \in DOMAIN cs /\ cs[k] = cs[name] THEN value
        ELSE cs[k]]

\* constants[name] = value
bind(cs, name, value) ==
    [k \in DOMAIN cs \cup {name} |-> IF k = name THEN value ELSE cs[k]]

\* the state a call leaves and what it raised and printed
Outcome(e, cs, root, out) ==
    [exc |-> e, constants |-> cs, xml_root |-> root, printed |-> out]

\* a declaration that binds the name before its value is parsed
parse_global_binds_first(s, cs, root) ==
    LET store(name, value) ==
            IF ~IsOk(value)
            THEN Outcome(value.exc, bind(cs, name, List(<<>>)), root, <<>>)
            ELSE Outcome(NoExc,
                         bind(cs, name, value.val),
                         add_to_xml(name, value.val, root),
                         <<>>)
        declare(m) ==
            IF ~m.matched
            THEN Outcome(Raise("SyntaxError", "Invalid global declaration",
                               s).exc,
                         cs, root, <<>>)
            ELSE store(m.name, parse_value(m.value, cs))
    IN  declare(match_global(s))

\* src lines 38-54
parse_global(s, cs, root) ==
    LET store(name, value) ==
            IF ~IsOk(value) THEN Outcome(value.exc, cs, root, <<>>)
            ELSE Outcome(NoExc,
                         bind(cs, name, value.val),
                         add_to_xml(name, value.val, root),
                         <<>>)
        declare(m) ==
            IF ~m.matched
            THEN Outcome(Raise("SyntaxError", "Invalid global declaration",
                               s).exc,
                         cs, root, <<>>)
            ELSE store(m.name, parse_value(m.value, cs))
    IN  declare(match_global(s))

----------------------------------------------------------------------------
(* parse_line                                                              *)

\* src lines 21-36
parse_line(s, cs, root) ==
    IF Len(s) = 0 \/ startswith(s, <<"#">>)
    THEN Outcome(NoExc, cs, root, <<>>)
    ELSE IF startswith(s, S_global \o <<" ">>)
    THEN parse_global(s, cs, root)
    ELSE IF startswith(s, <<"^">>)
    THEN LET report(r) == Outcome(r.exc, cs, root, r.printed)
         IN  report(evaluate_expression(Tail(s), cs))
    ELSE Outcome(Raise("SyntaxError", "Unknown syntax", s).exc, cs, root, <<>>)

----------------------------------------------------------------------------
(* The files the model reads                                               *)

\* the longest file read
MaxLines == 3

RECURSIVE Join(_, _)
Join(texts, sep) ==
    IF Len(texts) = 0 THEN <<>>
    ELSE IF Len(texts) = 1 THEN texts[1]
    ELSE texts[1] \o sep \o Join(Tail(texts), sep)

\* global <name> = <text>;
Decl(name, text) ==
    S_global \o <<" ">> \o name \o <<" ", "=", " ">> \o text \o <<";">>

\* array(<e1>, <e2>, ...)
ArrayText(elems) == S_array_open \o Join(elems, <<",", " ">>) \o <<")">>

\* ^ <t1> <t2> ...
ExprLine(tokens) == <<"^", " ">> \o Join(tokens, <<" ">>)

\* a line as file.readlines() gives it
FileLine(s) == s \o <<"\n">>

N_x == <<"x">>
N_y == <<"y">>
N_q == <<"q">>
V_0 == <<"0">>
V_1 == <<"1">>
V_2 == <<"2">>
V_3 == <<"3">>
V_4 == <<"4">>
V_7 == <<"7">>
V_10 == <<"1", "0">>
V_neg7 == <<"-", "7">>
V_neg10 == <<"-", "1", "0">>

Names == {N_x, N_y}

\* the element texts of the three-element array literals
ElemTexts == {V_3, N_x, ArrayText(<<V_1, V_2>>)}

TripleTexts == {ArrayText(<<a, b, c>>) : a, b, c \in ElemTexts}

ValueTexts ==
    {V_1, V_2, N_x, N_q,
     ArrayText(<<>>),
     ArrayText(<<V_1, V_2>>),
     ArrayText(<<N_x>>),
     ArrayText(<<V_1, V_2, N_x>>),
     ArrayText(<<ArrayText(<<V_1, V_2>>), V_3>>)}

DeclLines ==
    {Decl(n, v) : n \in Names, v \in ValueTexts}
        \cup {Decl(N_y, v) : v \in TripleTexts}

MalformedLines ==
    {S_global \o <<" ", "x", " ", "=", " ", "1">>,
     S_global \o <<" ", "1", "x", " ", "=", " ", "1", ";">>,
     S_global \o <<" ", "x", " ", "1", ";">>,
     <<"b", "o", "g", "u", "s", " ", "l", "i", "n", "e">>}

IgnoredLines == {<<>>, <<"#", " ", "c">>}

ExprLines ==
    {ExprLine(ts) : ts \in
        {<<>>, <<N_x>>, <<N_y>>, <<V_1, T_add>>, <<V_3, V_4, T_add>>,
         <<V_1, V_2>>, <<V_10, V_3, T_div>>, <<V_neg10, V_3, T_div>>,
         <<N_x, N_y, T_add>>, <<N_x, V_0, T_div>>}}

FileLines ==
    {FileLine(s) : s \in DeclLines \cup MalformedLines \cup IgnoredLines
                            \cup ExprLines}

\* the files of SpecEval: declarations of an int and of lists, then one
\* expression of the shapes below
EvalDecls ==
    {Decl(N_x, V_7), Decl(N_y, ArrayText(<<V_1, V_2>>)),
     Decl(N_y, ArrayText(<<N_x, N_y>>))}

Operands == {V_0, V_2, V_3, V_7, V_10, V_neg7, V_neg10, N_x, N_y, N_q}

Tokens == Operands \cup Operators

EvalExprs ==
    {<<>>}
        \cup {<<t>> : t \in Tokens}
        \cup {<<t, u>> : t, u \in Tokens}
        \cup {<<a, b, op>> : a, b \in Operands, op \in Operators}
        \cup {<<a, b, c>> : a, b, c \in {V_2, N_x, N_y}}
        \cup {<<V_0, a, T_sub, b, op>> :
                  a \in {V_0, V_2, V_3, V_7, V_10},
                  b \in {V_2, V_3, V_7, V_10},
                  op \in Operators}

EvalFileLines ==
    {FileLine(s) : s \in EvalDecls \cup {ExprLine(ts) : ts \in EvalExprs}}

----------------------------------------------------------------------------
(* parse_file and the main block                                           *)

\* src lines 18-19 and 149-156: parse_file hands the next line of the file,
\* stripped, to parse_line. An exception leaves the loop and parse_file: the
\* main block catches a SyntaxError and exits, any other exception ends the
\* program with a traceback. Either way no further line is parsed.
ParseFileStep(raw) ==
    /\ exc = NoExc
    /\ nlines < MaxLines
    /\ LET leave(r) ==
               /\ exc' = r.exc
               /\ constants' = r.constants
               /\ xml_root' = r.xml_root
               /\ printed' = r.printed
           call(s) ==
               /\ line' = s
               /\ leave(parse_line(s, constants, xml_root))
       IN  call(strip(raw))
    /\ nlines' = nlines + 1

\* src lines 6-10 and 148
Init ==
    /\ constants = <<>>
    /\ xml_root = <<>>
    /\ line = <<>>
    /\ exc = NoExc
    /\ printed = <<>>
    /\ nlines = 0

Next == \E raw \in FileLines : ParseFileStep(raw)

Spec == Init /\ [][Next]_vars

\* a file of declarations followed by one expression line
EvalStep(raw) ==
    /\ ~startswith(line, <<"^">>)
    /\ ParseFileStep(raw)

NextEval == \E raw \in EvalFileLines : EvalStep(raw)

SpecEval == Init /\ [][NextEval]_vars

----------------------------------------------------------------------------
(* What the claims speak of                                                *)

\* a call of parse_line has been made, with a line of the given kind
Called == nlines > 0

IsDeclaration(s) == startswith(s, S_global \o <<" ">>)

IsExpression(s) == startswith(s, <<"^">>)

\* the step is a call of parse_line
Step == nlines' = nlines + 1

\* the value a literal denotes when its array elements are split on the
\* commas outside every nested array(...), or Invalid
Invalid == [invalid |-> TRUE]

Depth(s, i) ==
    Cardinality({k \in 1..(i - 1) : s[k] = "("})
        - Cardinality({k \in 1..(i - 1) : s[k] = ")"})

TopCommas(s) == {i \in 1..Len(s) : s[i] = "," /\ Depth(s, i) = 0}

RECURSIVE SplitTop(_)
SplitTop(s) ==
    IF TopCommas(s) = {} THEN <<s>>
    ELSE LET i == CHOOSE k \in TopCommas(s) : \A j \in TopCommas(s) : k <= j
         IN  <<SubSeq(s, 1, i - 1)>> \o SplitTop(SubSeq(s, i + 1, Len(s)))

RECURSIVE Denoted(_, _)
Denoted(text, cs) ==
    IF startswith(text, S_array_open) /\ endswith(text, <<")">>)
    THEN LET inner == SubSeq(text, Len(S_array_open) + 1, Len(text) - 1)
             parts == IF strip(inner) = <<>> THEN <<>> ELSE SplitTop(inner)
             vals == [i \in 1..Len(parts) |-> Denoted(strip(parts[i]), cs)]
         IN  IF \E i \in 1..Len(parts) : vals[i] = Invalid THEN Invalid
             ELSE List(vals)
    ELSE IF isdigit(text) THEN Integer(int(text))
    ELSE IF text \in DOMAIN cs THEN cs[text]
    ELSE Invalid

\* the content of a node has the shape of the value at every level: an
\* Integer is the node's text, a List is one value child per element
RECURSIVE Content(_, _)
Content(node, v) ==
    IF IsInt(v)
    THEN node.text = str_int(v.int) /\ node.children = <<>>
    ELSE /\ node.text = None
         /\ Len(node.children) = Len(v.list)
         /\ \A i \in 1..Len(v.list) :
                /\ node.children[i].tag = "value"
                /\ Content(node.children[i], v.list[i])

\* the content of a node for a value whose elements are all Integers, and
\* for a List with List elements only the number of its value children
FlatContent(node, v) ==
    IF IsInt(v)
    THEN node.text = str_int(v.int) /\ node.children = <<>>
    ELSE /\ node.text = None
         /\ Len(node.children) = Len(v.list)
         /\ \A i \in 1..Len(v.list) :
                /\ node.children[i].tag = "value"
                /\ IsInt(v.list[i]) =>
                       node.children[i].text = str_int(v.list[i].int)

LastNode == xml_root[Len(xml_root)]

AllValueTexts == ValueTexts \cup TripleTexts

\* the symbol table and the tree after a declaration of n as the value v,
\* but for the content of the new node
Declared(n, v) ==
    /\ DOMAIN constants' = DOMAIN constants \cup {n}
    /\ constants'[n] = v
    /\ \A k \in DOMAIN constants \ {n} : constants'[k] = constants[k]
    /\ Len(xml_root') = Len(xml_root) + 1
    /\ \A i \in 1..Len(xml_root) : xml_root'[i] = xml_root[i]
    /\ xml_root'[Len(xml_root')].tag = "constant"
    /\ xml_root'[Len(xml_root')].name = n

----------------------------------------------------------------------------
(* C1: when parse_line processes `global n = v;` without raising, the      *)
(* symbol table then maps n to the value v denotes, every other binding    *)
(* is unchanged, and the root has exactly one more child, appended last,   *)
(* with name n and content matching the value; earlier nodes unchanged.    *)
C1_Declaration ==
    [][\A n \in Names, v \in AllValueTexts :
          (Step /\ line' = Decl(n, v) /\ exc' = NoExc)
              => /\ Denoted(v, constants) # Invalid
                 /\ Declared(n, Denoted(v, constants))
                 /\ Content(xml_root'[Len(xml_root')],
                            Denoted(v, constants))]_vars

\* the same with the content of a List element that is itself a List left
\* open: this much of C1 the code does
C1_DeclarationFlat ==
    [][\A n \in Names, v \in AllValueTexts :
          (Step /\ line' = Decl(n, v) /\ exc' = NoExc)
              => /\ Denoted(v, constants) # Invalid
                 /\ Declared(n, Denoted(v, constants))
                 /\ FlatContent(xml_root'[Len(xml_root')],
                                Denoted(v, constants))]_vars

(* C2: when parse_line fails on a line, the symbol table and the document  *)
(* tree are exactly as they were before the line.                          *)
C2_FailureIsAtomic ==
    [][(Step /\ exc' # NoExc)
          => (constants' = constants /\ xml_root' = xml_root)]_vars

\* a three-element array whose third element is invalid, after the first
\* two were parsed, in a session that already holds a binding and a node
C2_Witness ==
    /\ line = Decl(N_y, ArrayText(<<N_x, N_x, ArrayText(<<V_1, V_2>>)>>))
    /\ exc.type = "SyntaxError"
    /\ exc.msg = "Invalid value"
    /\ N_x \in DOMAIN constants
    /\ N_y \notin DOMAIN constants
    /\ Len(xml_root) = 1

(* C3: for element texts a, b, c that are valid literals, nested array     *)
(* literals with commas included, parsing array(a, b, c) succeeds and      *)
(* yields the List of the three elements' values.                          *)
C3_ArrayElements ==
    [][\A a, b, c \in ElemTexts :
          (/\ Step
           /\ line' = Decl(N_y, ArrayText(<<a, b, c>>))
           /\ IsOk(parse_value(a, constants))
           /\ IsOk(parse_value(b, constants))
           /\ IsOk(parse_value(c, constants)))
              => /\ exc' = NoExc
                 /\ constants'[N_y] =
                        List(<<parse_value(a, constants).val,
                               parse_value(b, constants).val,
                               parse_value(c, constants).val>>)]_vars

(* C4: `global z = array();` succeeds in any session state, binds z to the *)
(* empty List and appends a node for z with no value children.             *)
C4_EmptyArray ==
    \A n \in Names :
        (Called /\ line = Decl(n, ArrayText(<<>>)))
            => /\ exc = NoExc
               /\ n \in DOMAIN constants
               /\ constants[n] = List(<<>>)
               /\ Len(xml_root) > 0
               /\ LastNode.name = n
               /\ LastNode.children = <<>>

\* a binary operator is reached with fewer than two values on the stack
Underflows(tokens, cs) ==
    \E k \in 1..Len(tokens) :
        LET before == eval_tokens(SubSeq(tokens, 1, k - 1), <<>>, cs)
        IN  /\ before.exc = NoExc
            /\ Len(before.stack) < 2
            /\ tokens[k] \in Operators
            /\ tokens[k] \notin DOMAIN cs

(* C5: when a binary operator is reached with fewer than two values on the *)
(* stack, evaluation fails with the one error kind of the engine,          *)
(* SyntaxError.                                                            *)
C5_UnderflowIsSyntaxError ==
    (Called /\ IsExpression(line)
        /\ Underflows(split_ws(Tail(line)), constants))
            => exc.type = "SyntaxError"

(* C6: an expression line that evaluates successfully reports exactly one  *)
(* result, and it is an Integer, also when a token names a List.           *)
C6_ResultIsInteger ==
    (Called /\ IsExpression(line) /\ exc = NoExc)
        => (Len(printed) = 1 /\ IsInt(printed[1]))

\* q is the floor of a / b, and r the remainder that goes with it
IsFloor(q, a, b) == q * b <= a /\ a < q * b + b

IsFloorRem(r, a, b) ==
    /\ 0 <= r
    /\ r < b
    /\ \E q \in (0 - 11)..11 : a = q * b + r

SignedLiterals == {0 - 10, 0 - 7, 0, 2, 3, 7, 10}

PositiveLiterals == {2, 3, 7, 10}

Reports(v) == exc = NoExc /\ Len(printed) = 1 /\ printed[1] = v

(* C7: for integer literals a, negative ones included, and b > 0, the line *)
(* `^ a b /` reports floor(a/b) and `^ a b mod` the remainder with the     *)
(* sign of the divisor.                                                    *)
C7_SignedLiterals ==
    \A a \in SignedLiterals, b \in PositiveLiterals :
        /\ (Called /\ line = ExprLine(<<str_int(a), str_int(b), T_div>>))
               => (/\ exc = NoExc
                   /\ Len(printed) = 1
                   /\ IsInt(printed[1])
                   /\ IsFloor(printed[1].int, a, b))
        /\ (Called /\ line = ExprLine(<<str_int(a), str_int(b), T_mod>>))
               => (/\ exc = NoExc
                   /\ Len(printed) = 1
                   /\ IsInt(printed[1])
                   /\ IsFloorRem(printed[1].int, a, b))

\* C7 as amended: floor semantics over the operands on the stack; a literal
\* is unsigned, a negative operand is computed (0 a -), and a token such as
\* -10 is an unknown token
C7_FloorOverComputedOperands ==
    \A a \in {0, 2, 3, 7, 10}, b \in PositiveLiterals :
        /\ (Called /\ line = ExprLine(<<str_int(a), str_int(b), T_div>>))
               => (/\ exc = NoExc
                   /\ Len(printed) = 1
                   /\ IsInt(printed[1])
                   /\ IsFloor(printed[1].int, a, b))
        /\ (Called /\ line = ExprLine(<<str_int(a), str_int(b), T_mod>>))
               => (/\ exc = NoExc
                   /\ Len(printed) = 1
                   /\ IsInt(printed[1])
                   /\ IsFloorRem(printed[1].int, a, b))
        /\ (Called /\ line = ExprLine(<<V_0, str_int(a), T_sub,
                                        str_int(b), T_div>>))
               => (/\ exc = NoExc
                   /\ Len(printed) = 1
                   /\ IsInt(printed[1])
                   /\ IsFloor(printed[1].int, 0 - a, b))
        /\ (Called /\ line = ExprLine(<<V_0, str_int(a), T_sub,
                                        str_int(b), T_mod>>))
               => (/\ exc = NoExc
                   /\ Len(printed) = 1
                   /\ IsInt(printed[1])
                   /\ IsFloorRem(printed[1].int, 0 - a, b))
        /\ \A op \in {T_div, T_mod} :
               (/\ Called
                /\ a > 0
                /\ line = ExprLine(<<str_int(0 - a), str_int(b), op>>))
                   => (/\ exc.type = "SyntaxError"
                       /\ exc.msg = "Unknown token in expression"
                       /\ exc.arg = str_int(0 - a)
                       /\ printed = <<>>)

\* `^ 0 10 - 3 /` reports -4
C7_Witness ==
    /\ line = ExprLine(<<V_0, V_10, T_sub, V_3, T_div>>)
    /\ Reports(Integer(0 - 4))

(* C8: when a declaration binds a name to a List, the appended node has    *)
(* one value child per element, in order, and an element that is itself a  *)
(* List is a nested group of value children: the shape of the node tree is *)
(* the shape of the value at every level.                                  *)
C8_NestedShape ==
    (Called /\ IsDeclaration(line) /\ exc = NoExc)
        => (IsList(constants[LastNode.name])
                => Content(LastNode, constants[LastNode.name]))

\* the step is a declaration of n that succeeds
DeclaresName(n) ==
    /\ Step
    /\ exc' = NoExc
    /\ \E v \in AllValueTexts : line' = Decl(n, v)

(* C9: once a declaration of m has resolved a reference to n, a later      *)
(* redeclaration of n changes only the binding of n: the value of m and    *)
(* the nodes already appended stay as they were: no call of parse_line     *)
(* changes a binding other than that of the name it declares, or a node    *)
(* already in the tree.                                                    *)
C9_ResolvedByValue ==
    [][Step
          => /\ \A m \in DOMAIN constants :
                    ~DeclaresName(m)
                        => /\ m \in DOMAIN constants'
                           /\ constants'[m] = constants[m]
             /\ Len(xml_root') >= Len(xml_root)
             /\ \A i \in 1..Len(xml_root) : xml_root'[i] = xml_root[i]]_vars

\* x = 2, then y = array(1, 2, x), then x = 1: y is still [1, 2, 2], which
\* only that declaration of y, resolving x, can have bound
C9_Witness ==
    /\ line = Decl(N_x, V_1)
    /\ exc = NoExc
    /\ Len(xml_root) = 3
    /\ xml_root[2] = constant_element(N_y, List(<<Integer(1), Integer(2),
                                                  Integer(2)>>))
    /\ constants[N_x] = Integer(1)
    /\ constants[N_y] = List(<<Integer(1), Integer(2), Integer(2)>>)

(* C10: an expression whose tokens are all consumed succeeds only if       *)
(* exactly one value is left on the stack; with none left (the empty       *)
(* expression included) or more than one, it fails with SyntaxError,       *)
(* invalid expression, and reports nothing.                                *)
C10_OneValueLeft ==
    (Called /\ IsExpression(line))
        => LET loop == eval_tokens(split_ws(Tail(line)), <<>>, constants)
           IN  /\ exc = NoExc => (loop.exc = NoExc /\ Len(loop.stack) = 1)
               /\ (loop.exc = NoExc /\ Len(loop.stack) # 1)
                      => /\ exc.type = "SyntaxError"
                         /\ exc.msg = "Invalid expression"
                         /\ printed = <<>>

\* three operands and no operator: three values are left
C10_Witness ==
    /\ line = ExprLine(<<V_2, N_x, N_y>>)
    /\ N_x \in DOMAIN constants
    /\ N_y \in DOMAIN constants
    /\ exc.type = "SyntaxError"
    /\ exc.msg = "Invalid expression"
    /\ printed = <<>>

====
